---- MODULE Spec2Model ----
(***************************************************************************)
(* GridFSContentsManager (src/ipynbstore_gridfs/__init__.py): a notebook   *)
(* contents manager that keeps notebooks as GridFS files and checkpoints   *)
(* as documents of a MongoDB collection.                                   *)
(*                                                                         *)
(* State: the GridFS files collection (one document per stored version,    *)
(* in upload order), the checkpoint collection (in insertion order), the   *)
(* ObjectId generator, the clock read by create_checkpoint, and a record   *)
(* of the call being answered (its arguments, outcome and the stores       *)
(* before it). Calls are served one at a time: a handler runs as one       *)
(* step, then its answer is handed to the host.                            *)
(*                                                                         *)
(* Two further specifications run a handler in the steps of its store      *)
(* accesses: SpecRace runs two create_checkpoint calls (callers) and a     *)
(* save (saving) side by side, SpecRenameSteps runs rename step by step    *)
(* and lets the process stop between two steps (renaming).                 *)
(***************************************************************************)
EXTENDS Integers, Sequences, FiniteSets, TLC

VARIABLES files, checkpoints, nextId, clock, last, callers, saving, renaming

vars == <<files, checkpoints, nextId, clock, last, callers, saving, renaming>>

\* ------------------------------------------------------------------ bounds
\* Number of GridFS puts (save, rename) explored.
MaxPuts == 3

\* ------------------------------------------------------------------ inputs
None == "None"

\* Paths as stored (already stripped of '/').
Paths == {"", "a.ipynb", "c.txt"}

\* Paths as callers pass them.
RawPaths == Paths \cup {"/a.ipynb/"}

\* path.strip('/')
strip(path) == IF path = "/a.ipynb/" THEN "a.ipynb" ELSE path

\* path.endswith('.ipynb')
endswith_ipynb(path) == path = "a.ipynb"

\* Notebook documents (decoded JSON): the format version, the key the cells
\* are kept under in that format, and the rest. Neither has code cells, so
\* trust marking and signing leave them alone.
Docs ==
    { [nbformat |-> 4, cells_in |-> "cells", body |-> "x"],
      [nbformat |-> 3, cells_in |-> "worksheets", body |-> "y"] }

\* Python's None in a content slot, and the text content of a plain file.
NoneDoc == [nbformat |-> 0, cells_in |-> "none", body |-> "None"]
TextDoc == [nbformat |-> 0, cells_in |-> "none", body |-> "text"]

\* The models save() is called with: the keys 'type' and 'content' may be absent.
Absent == "absent"
Models ==
    { [type |-> Absent, has_content |-> FALSE, content |-> NoneDoc],
      [type |-> "notebook", has_content |-> FALSE, content |-> NoneDoc],
      [type |-> "file", has_content |-> TRUE, content |-> TextDoc],
      [type |-> "directory", has_content |-> FALSE, content |-> NoneDoc],
      [type |-> "bogus", has_content |-> TRUE, content |-> TextDoc] }
    \cup { [type |-> "notebook", has_content |-> TRUE, content |-> d] : d \in Docs }

\* ------------------------------------------------------------------- codec
\* json.dumps(nb, sort_keys=...): the bytes carry the document and the key order.
json_dumps(nb, sort_keys) == [doc |-> nb, sorted |-> sort_keys]

\* json.loads(bytes): the key order is lost.
json_loads(bytes) == bytes.doc

\* nbformat.from_dict(d): wraps the dict, no conversion.
from_dict(d) == d

\* nbformat.read(fp, as_version): parses, then converts a document of another
\* format version to the asked one, which renumbers it and moves its cells to
\* the key of that format.
nbformat_read(bytes, as_version) ==
    LET nb == json_loads(bytes)
    IN  IF nb.nbformat = as_version THEN nb
        ELSE [nb EXCEPT !.nbformat = as_version, !.cells_in = "cells"]

\* ------------------------------------------------------------------ GridFS
\* The orders fs.list() may return the names in: the code takes the list as
\* the store returns it, and the store promises no order.
Listings ==
    { order \in [1 .. Cardinality(Paths) -> Paths] :
        \A i, j \in DOMAIN order : order[i] = order[j] => i = j }

\* What one call of get() meets besides the stored data: the order of the
\* listing, and whether the recursion limit is reached inside nbformat.read.
Envs == [order : Listings, limit_in_read : BOOLEAN]

\* The environments a get(path, content) can tell apart: only get('') lists
\* the store, and only a listing with content reads notebooks.
OneEnv == {CHOOSE env \in Envs : TRUE}
OrderEnvs == {env \in Envs : ~env.limit_in_read}
EnvsFor(path, content) ==
    IF path # "" THEN OneEnv
    ELSE IF content THEN Envs
    ELSE OrderEnvs

\* The distinct filenames, in the given order.
distinct_names(fs, order) ==
    SelectSeq(order, LAMBDA name : \E i \in DOMAIN fs : fs[i].filename = name)

\* fs.list()
fs_list(fs, env) == distinct_names(fs, env.order)

fs_names(fs) == { fs[i].filename : i \in DOMAIN fs }

\* The versions of one filename, oldest first.
versions_of(fs, filename) == SelectSeq(fs, LAMBDA f : f.filename = filename)

\* fs.get_version(filename) / fs.get_last_version(filename): the newest version.
\* Raises NoFile when there is none (callers test has_version first).
has_version(fs, filename) == versions_of(fs, filename) # <<>>

\* Mutant of get_version: the oldest version instead of the newest.
get_first_version(fs, filename) == versions_of(fs, filename)[1]

get_version(fs, filename) ==
    LET vs == versions_of(fs, filename) IN vs[Len(vs)]

\* fs.put(data, filename=...): a new version with a fresh ObjectId.
fs_put(fs, id, data, filename) ==
    Append(fs, [_id |-> id, filename |-> filename, data |-> data])

\* fs.delete(file_id): removes that one version.
fs_delete(fs, file_id) == SelectSeq(fs, LAMBDA f : f._id # file_id)

\* --------------------------------------------------------- read operations
\* file_exists(path)
file_exists(fs, path) ==
    LET p == strip(path)
    IN  IF p = "" THEN FALSE
        ELSE IF p \in fs_names(fs) THEN TRUE
        ELSE FALSE

\* dir_exists(path)
dir_exists(path) == IF path = "" THEN TRUE ELSE FALSE

\* exists(path)
exists(fs, path) ==
    LET p == strip(path) IN file_exists(fs, p) \/ dir_exists(p)

\* _base_model(path), without the clock readings (name = path: no inner '/').
base_model(path) ==
    [name |-> path, path |-> path, type |-> None, content |-> NoneDoc,
     format |-> None, entries |-> <<>>]

\* _read_notebook(path, as_version=4)
read_notebook(fs, path) == nbformat_read(get_version(fs, path).data, 4)

\* _notebook_model(path, content): mark_trusted_cells changes code cells only.
notebook_model(fs, path, content) ==
    LET model == [base_model(path) EXCEPT !.type = "notebook"]
    IN  IF content
        THEN [model EXCEPT !.content = read_notebook(fs, path), !.format = "json"]
        ELSE model

\* What get(names[i], content) called from _dir_model ends with. The root name
\* '' lists the directory again, without end, until the recursion limit is
\* reached: inside nbformat.read of a notebook listed before '' (then
\* _read_notebook raises 400, lines 380-384), or in another frame (then the
\* RuntimeError leaves get() as it is).
entry_status(names, i, content, env) ==
    IF names[i] = ""
    THEN IF /\ content
            /\ env.limit_in_read
            /\ \E j \in 1 .. i - 1 : endswith_ipynb(names[j])
         THEN "400"
         ELSE "RuntimeError"
    ELSE IF endswith_ipynb(names[i]) THEN "ok"
    ELSE "400"

\* _dir_model(path, content): one get() per listed name, whatever `content` is;
\* the first name whose get() raises ends the call with that error.
dir_model(fs, path, content, env) ==
    LET names == fs_list(fs, env)
        bad   == { i \in DOMAIN names : entry_status(names, i, content, env) # "ok" }
        first == CHOOSE i \in bad : \A j \in bad : i <= j
    IN  IF bad # {}
        THEN [status |-> entry_status(names, first, content, env),
              model |-> base_model(path)]
        ELSE [status |-> "ok",
              model |-> [base_model(path) EXCEPT
                           !.type = "directory",
                           !.format = "json",
                           !.entries = [i \in DOMAIN names |->
                                          notebook_model(fs, names[i], content)]]]

\* get(path, content, type)
get(fs, path, content, type, env) ==
    LET p == strip(path)
    IN  IF ~exists(fs, p)
        THEN [status |-> "404", model |-> base_model(p)]
        ELSE IF p = ""
        THEN IF type \notin {None, "directory"}
             THEN [status |-> "400", model |-> base_model(p)]
             ELSE dir_model(fs, p, content, env)
        ELSE IF type = "notebook" \/ (type = None /\ endswith_ipynb(p))
        THEN [status |-> "ok", model |-> notebook_model(fs, p, content)]
        ELSE [status |-> "400", model |-> base_model(p)]

\* The checkpoint documents of one path, in insertion order.
find(cps, path) == SelectSeq(cps, LAMBDA c : c.path = path)

\* list_checkpoints(path)
list_checkpoints(cps, path) ==
    LET found == find(cps, strip(path))
    IN  [i \in DOMAIN found |->
           [id |-> found[i].cp, last_modified |-> found[i].lastModified]]

\* -------------------------------------------------------- write operations
\* create_checkpoint(path): the latest version's id is the document's _id, the
\* number of documents of the path its 'cp'. The update is an upsert on
\* {path, cp, id, lastModified}: a document matching all four is left as it is,
\* otherwise one is inserted, which MongoDB refuses when the _id is taken.
\* The clock is read once per call; it is advanced past every stored reading.
\* Mutant of checkpoint_upsert: the insert is not refused for a taken _id.
checkpoint_upsert_any(cps, clk, p, chid, cp_id) ==
    [status |-> "ok",
     checkpoints |-> Append(cps, [_id |-> chid, path |-> p, cp |-> cp_id,
                                  id |-> chid, lastModified |-> clk]),
     clock |-> clk + 1, id |-> cp_id]

\* Mutant of checkpoint_upsert: the store numbers the record when it inserts
\* it, with the count of the path's records at that moment.
checkpoint_upsert_counted(cps, clk, p, chid, cp_id) ==
    IF \E i \in DOMAIN cps : cps[i]._id = chid
    THEN [status |-> "DuplicateKeyError", checkpoints |-> cps, clock |-> clk,
          id |-> -1]
    ELSE [status |-> "ok",
          checkpoints |-> Append(cps, [_id |-> chid, path |-> p,
                                       cp |-> Len(SelectSeq(cps, LAMBDA c : c.path = p)),
                                       id |-> chid, lastModified |-> clk]),
          clock |-> clk + 1, id |-> cp_id]

\* The upsert of create_checkpoint (lines 184-196), given the ids it computed.
checkpoint_upsert(cps, clk, p, chid, cp_id) ==
    LET doc == [_id |-> chid, path |-> p, cp |-> cp_id, id |-> chid,
                lastModified |-> clk]
    IN  IF \E i \in DOMAIN cps : cps[i] = doc
        THEN [status |-> "ok", checkpoints |-> cps, clock |-> clk, id |-> cp_id]
        ELSE IF \E i \in DOMAIN cps : cps[i]._id = chid
        THEN [status |-> "DuplicateKeyError", checkpoints |-> cps,
              clock |-> clk, id |-> -1]
        ELSE [status |-> "ok", checkpoints |-> Append(cps, doc),
              clock |-> clk + 1, id |-> cp_id]

\* Mutant of create_checkpoint: no version is looked up, a record is stored
\* for any path (with the id 0 when the path has no version).
create_checkpoint_blind(fs, cps, clk, path) ==
    LET p == strip(path)
    IN  checkpoint_upsert(cps, clk, p,
                          IF has_version(fs, p) THEN get_version(fs, p)._id ELSE 0,
                          Len(find(cps, p)))

create_checkpoint(fs, cps, clk, path) ==
    LET p == strip(path)
    IN  IF ~has_version(fs, p)
        THEN [status |-> "NoFile", checkpoints |-> cps, clock |-> clk, id |-> -1]
        ELSE checkpoint_upsert(cps, clk, p, get_version(fs, p)._id,
                               Len(find(cps, p)))

\* Mutant of delete: no existence test, and a lookup that falls back to the
\* newest file of the store when the path has none.
delete_unguarded(fs, path) ==
    IF fs = <<>> THEN fs
    ELSE IF has_version(fs, strip(path))
    THEN fs_delete(fs, get_version(fs, strip(path))._id)
    ELSE fs_delete(fs, fs[Len(fs)]._id)

\* Mutant of delete_checkpoints: the records of the deleted path are removed.
delete_checkpoints_cleanup(cps, path) ==
    SelectSeq(cps, LAMBDA c : c.path # strip(path))

\* What delete(path) does to the checkpoint collection: it never touches it.
delete_checkpoints(cps, path) == cps

\* delete(path): removes the version get_version returns, the newest one.
delete(fs, path) ==
    IF ~file_exists(fs, path) THEN fs
    ELSE fs_delete(fs, get_version(fs, strip(path))._id)

\* _save_notebook(os_path, nb)
save_notebook(fs, id, os_path, nb) == fs_put(fs, id, json_dumps(nb, TRUE), os_path)

\* Mutant of pre_save_checkpoint: a checkpoint before every save of a stored path.
pre_save_checkpoint_always(fs, cps, clk, p) ==
    IF file_exists(fs, p)
    THEN create_checkpoint(fs, cps, clk, p)
    ELSE [status |-> "ok", checkpoints |-> cps, clock |-> clk, id |-> -1]

\* The pre-save step of save(): "One checkpoint should always exist".
pre_save_checkpoint(fs, cps, clk, p) ==
    IF file_exists(fs, p) /\ list_checkpoints(cps, p) = <<>>
    THEN create_checkpoint(fs, cps, clk, p)
    ELSE [status |-> "ok", checkpoints |-> cps, clock |-> clk, id |-> -1]

\* save(model, path). The class has no _save_file and no _save_directory, so
\* these two types end in the except clause (500); the closing get() runs
\* after the notebook has been written.
save(fs, cps, id, clk, model, path, env) ==
    LET p  == strip(path)
        ck == pre_save_checkpoint(fs, cps, clk, p)
        same(st) == [status |-> st, files |-> fs, checkpoints |-> cps,
                     nextId |-> id, clock |-> clk]
        kept(st) == [status |-> st, files |-> fs, checkpoints |-> ck.checkpoints,
                     nextId |-> id, clock |-> ck.clock]
    IN  IF model.type = Absent THEN same("400")
        ELSE IF ~model.has_content /\ model.type # "directory" THEN same("400")
        ELSE IF ck.status # "ok" THEN kept(ck.status)
        ELSE IF model.type = "notebook"
        THEN LET fs1 == save_notebook(fs, id, p, from_dict(model.content))
             IN  [status |-> get(fs1, p, FALSE, None, env).status, files |-> fs1,
                  checkpoints |-> ck.checkpoints, nextId |-> id + 1,
                  clock |-> ck.clock]
        ELSE IF model.type \in {"file", "directory"} THEN kept("500")
        ELSE kept("400")

\* The update of rename(): every document of old_path gets path new_path.
retarget(cps, old_path, new_path) ==
    [i \in DOMAIN cps |->
       IF cps[i].path = old_path THEN [cps[i] EXCEPT !.path = new_path] ELSE cps[i]]

\* The copy written first, before anything of the old path is touched.
rename_put_moving(fs, id, o, n) ==
    LET nb == from_dict(json_loads(get_version(fs, o).data))
    IN  fs_put(delete(fs, o), id, json_dumps(nb, FALSE), n)

\* The newest version of o, parsed and written again under n.
rename_put(fs, id, o, n) ==
    LET nb == from_dict(json_loads(get_version(fs, o).data))
    IN  fs_put(fs, id, json_dumps(nb, FALSE), n)

\* rename(old_path, new_path)
rename(fs, cps, id, old_path, new_path) ==
    LET o == strip(old_path)
        n == strip(new_path)
        same(st) == [status |-> st, files |-> fs, checkpoints |-> cps, nextId |-> id]
    IN  IF n = o THEN same("ok")
        ELSE IF file_exists(fs, n) THEN same("409")
        ELSE IF ~has_version(fs, o) THEN same("500")
        ELSE LET fs1 == rename_put(fs, id, o, n)
                 fs2 == delete(fs1, o)
             IN  [status |-> "ok", files |-> fs2,
                  checkpoints |-> retarget(cps, o, n), nextId |-> id + 1]

\* ----------------------------------------------------------------- actions
NoModel == [type |-> Absent, has_content |-> FALSE, content |-> NoneDoc]

Called(op, path, new_path, model, status, id) ==
    [op |-> op, path |-> path, new_path |-> new_path, model |-> model,
     status |-> status, id |-> id, files |-> files, checkpoints |-> checkpoints]

Idle ==
    [op |-> "idle", path |-> "", new_path |-> "", model |-> NoModel,
     status |-> "ok", id |-> -1, files |-> <<>>, checkpoints |-> <<>>]

\* The two create_checkpoint calls of SpecRace, not yet started.
NotCalled ==
    [pc |-> "start", chid |-> 0, cp_id |-> -1, early |-> FALSE, now |-> 0,
     inserted |-> FALSE, status |-> "none"]

\* The two calls of SpecRace, and the create_checkpoint call made by its save.
Callers == {1, 2}
SaveCaller == 3

\* No save is running in SpecRace; status is how the last one ended.
NotSaving == [pc |-> "idle", doc |-> NoneDoc, status |-> "none"]

\* No rename is between two of its steps.
NoRename == "none"

Init ==
    /\ files = <<>>
    /\ checkpoints = <<>>
    /\ nextId = 1
    /\ clock = 1
    /\ last = Idle
    /\ callers = [c \in Callers \cup {SaveCaller} |-> NotCalled]
    /\ saving = NotSaving
    /\ renaming = NoRename

Save ==
    /\ last = Idle
    /\ \E model \in Models, path \in RawPaths :
        \E r \in { save(files, checkpoints, nextId, clock, model, path, env) :
                     env \in EnvsFor(path, FALSE) } :
            /\ r.nextId - 1 <= MaxPuts
            /\ files' = r.files
            /\ checkpoints' = r.checkpoints
            /\ nextId' = r.nextId
            /\ clock' = r.clock
            /\ last' = Called("save", strip(path), "", model, r.status, -1)
            /\ UNCHANGED <<callers, saving, renaming>>

Rename ==
    \E old_path \in RawPaths, new_path \in RawPaths :
        LET r == rename(files, checkpoints, nextId, old_path, new_path)
        IN  /\ last = Idle
            /\ r.nextId - 1 <= MaxPuts
            /\ files' = r.files
            /\ checkpoints' = r.checkpoints
            /\ nextId' = r.nextId
            /\ clock' = clock
            /\ last' = Called("rename", strip(old_path), strip(new_path), NoModel,
                              r.status, -1)
            /\ UNCHANGED <<callers, saving, renaming>>

Delete ==
    \E path \in RawPaths :
        /\ last = Idle
        /\ files' = delete(files, path)
        /\ checkpoints' = delete_checkpoints(checkpoints, path)
        /\ last' = Called("delete", strip(path), "", NoModel, "ok", -1)
        /\ UNCHANGED <<nextId, clock, callers, saving, renaming>>

CreateCheckpoint ==
    \E path \in RawPaths :
        LET r == create_checkpoint(files, checkpoints, clock, path)
        IN  /\ last = Idle
            /\ checkpoints' = r.checkpoints
            /\ clock' = r.clock
            /\ last' = Called("create_checkpoint", strip(path), "", NoModel, r.status,
                              r.id)
            /\ UNCHANGED <<files, nextId, callers, saving, renaming>>

\* The answer goes back to the host; the manager keeps nothing of the call.
Respond ==
    /\ last # Idle
    /\ renaming = NoRename
    /\ last' = Idle
    /\ UNCHANGED <<files, checkpoints, nextId, clock, callers, saving, renaming>>

Next == Save \/ Rename \/ Delete \/ CreateCheckpoint \/ Respond

Spec == Init /\ [][Next]_vars

\* ------------------------------------------- two create_checkpoint calls
\* The path both calls, and the save running beside them, are made on.
RacePath == "a.ipynb"

Other(c) == 3 - c

\* The call has sent its update to the checkpoint collection.
Upserted(c) == callers[c].pc = "done" /\ callers[c].status # "NoFile"

\* The call is running: one of the two, or the one save() makes at line 224.
Running(c) == c \in Callers \/ saving.pc = "checkpoint"

\* Line 179: the newest version of the path, or NoFile.
RaceVersion(c) ==
    /\ Running(c)
    /\ callers[c].pc = "start"
    /\ callers' = [callers EXCEPT ![c] =
          IF has_version(files, RacePath)
          THEN [@ EXCEPT !.pc = "version", !.chid = get_version(files, RacePath)._id]
          ELSE [@ EXCEPT !.pc = "done", !.status = "NoFile"]]
    /\ UNCHANGED <<files, checkpoints, nextId, clock, last, saving, renaming>>

\* Lines 181-182: the number of records of the path.
RaceCount(c) ==
    /\ Running(c)
    /\ callers[c].pc = "version"
    /\ callers' = [callers EXCEPT ![c] =
          [@ EXCEPT !.pc = "count",
                    !.cp_id = Len(find(checkpoints, RacePath)),
                    !.early = c \in Callers /\ ~Upserted(Other(c))]]
    /\ UNCHANGED <<files, checkpoints, nextId, clock, last, saving, renaming>>

\* Line 186: utcnow(). The wall clock moves on its own: the next reading, by
\* any call and whatever was stored meanwhile, may fall in the same
\* millisecond or in a later one.
RaceClock(c) ==
    /\ Running(c)
    /\ callers[c].pc = "count"
    /\ callers' = [callers EXCEPT ![c] = [@ EXCEPT !.pc = "clock", !.now = clock]]
    /\ clock' \in {clock, clock + 1}
    /\ UNCHANGED <<files, checkpoints, nextId, last, saving, renaming>>

\* Lines 189-196: the update with upsert=True, carrying the reading of line 186.
RaceUpdate(c) ==
    /\ Running(c)
    /\ callers[c].pc = "clock"
    /\ LET r == checkpoint_upsert(checkpoints, callers[c].now, RacePath,
                                  callers[c].chid, callers[c].cp_id)
       IN  /\ checkpoints' = r.checkpoints
           /\ callers' = [callers EXCEPT ![c] =
                 [@ EXCEPT !.pc = "done", !.status = r.status,
                           !.inserted = Len(r.checkpoints) > Len(checkpoints)]]
    /\ UNCHANGED <<files, nextId, clock, last, saving, renaming>>

\* save(), lines 211-223: a notebook model with content passes the two tests,
\* then file_exists(path) reads the store.
SaveBegin ==
    /\ saving.pc = "idle"
    /\ nextId <= MaxPuts
    /\ \E doc \in Docs :
          saving' = [pc |-> IF file_exists(files, RacePath) THEN "exists" ELSE "put",
                     doc |-> doc, status |-> "none"]
    /\ UNCHANGED <<files, checkpoints, nextId, clock, last, callers, renaming>>

\* save(), line 223: list_checkpoints(path) reads the checkpoint collection.
SaveListCheckpoints ==
    /\ saving.pc = "exists"
    /\ saving' = [saving EXCEPT !.pc =
          IF list_checkpoints(checkpoints, RacePath) = <<>> THEN "checkpoint" ELSE "put"]
    /\ UNCHANGED <<files, checkpoints, nextId, clock, last, callers, renaming>>

\* save(), line 224: create_checkpoint(path) has returned or raised; what it
\* raises leaves save(), outside the try block, before anything is written.
SaveCheckpointed ==
    /\ saving.pc = "checkpoint"
    /\ callers[SaveCaller].pc = "done"
    /\ saving' = IF callers[SaveCaller].status = "ok"
                 THEN [saving EXCEPT !.pc = "put"]
                 ELSE [NotSaving EXCEPT !.status = callers[SaveCaller].status]
    /\ callers' = [callers EXCEPT ![SaveCaller] = NotCalled]
    /\ UNCHANGED <<files, checkpoints, nextId, clock, last, renaming>>

\* save(), lines 230-234: _save_notebook(path, nb).
SavePut ==
    /\ saving.pc = "put"
    /\ files' = save_notebook(files, nextId, RacePath, from_dict(saving.doc))
    /\ nextId' = nextId + 1
    /\ saving' = [saving EXCEPT !.pc = "get"]
    /\ UNCHANGED <<checkpoints, clock, last, callers, renaming>>

\* save(), lines 259-263: the closing get(path, content=False).
SaveReturn ==
    /\ saving.pc = "get"
    /\ \E env \in Envs :
          saving' = [NotSaving EXCEPT
                       !.status = get(files, RacePath, FALSE, None, env).status]
    /\ UNCHANGED <<files, checkpoints, nextId, clock, last, callers, renaming>>

NextRace ==
    \/ SaveBegin \/ SaveListCheckpoints \/ SaveCheckpointed \/ SavePut \/ SaveReturn
    \/ \E c \in Callers \cup {SaveCaller} :
          RaceVersion(c) \/ RaceCount(c) \/ RaceClock(c) \/ RaceUpdate(c)

SpecRace == Init /\ [][NextRace]_vars

\* ------------------------------------------------- rename, step by step
\* Lines 268-283: the checks, then the copy of old's newest version to new.
RenameBegin ==
    \E old_path \in RawPaths, new_path \in RawPaths :
        LET o == strip(old_path)
            n == strip(new_path)
            returned(st) ==
                /\ last' = Called("rename", o, n, NoModel, st, -1)
                /\ UNCHANGED <<files, checkpoints, nextId, clock, callers, saving, renaming>>
        IN  /\ last = Idle
            /\ IF n = o THEN returned("ok")
               ELSE IF file_exists(files, n) THEN returned("409")
               ELSE IF ~has_version(files, o) THEN returned("500")
               ELSE /\ nextId <= MaxPuts
                    /\ files' = rename_put(files, nextId, o, n)
                    /\ nextId' = nextId + 1
                    /\ renaming' = "put"
                    /\ last' = Called("rename", o, n, NoModel, "running", -1)
                    /\ UNCHANGED <<checkpoints, clock, callers, saving>>

\* Line 284: delete(old_path).
RenameDelete ==
    /\ renaming = "put"
    /\ files' = delete(files, last.path)
    /\ renaming' = "deleted"
    /\ UNCHANGED <<checkpoints, nextId, clock, last, callers, saving>>

\* Lines 289-299: the checkpoints of old_path are moved, rename returns.
RenameRetarget ==
    /\ renaming = "deleted"
    /\ checkpoints' = retarget(checkpoints, last.path, last.new_path)
    /\ renaming' = NoRename
    /\ last' = [last EXCEPT !.status = "ok"]
    /\ UNCHANGED <<files, nextId, clock, callers, saving>>

\* The process stops between two steps of rename; the store stays as it is.
RenameCrash ==
    /\ renaming # NoRename
    /\ renaming' = NoRename
    /\ last' = [last EXCEPT !.status =
                   IF renaming = "put" THEN "StoppedAfterPut" ELSE "StoppedAfterDelete"]
    /\ UNCHANGED <<files, checkpoints, nextId, clock, callers, saving>>

NextRenameSteps ==
    \/ Save \/ Delete \/ Respond
    \/ RenameBegin \/ RenameDelete \/ RenameRetarget \/ RenameCrash

SpecRenameSteps == Init /\ [][NextRenameSteps]_vars

\* ------------------------------------------------------------------ claims
\* The answered call and the stores it started from.
Op == last.op
Ok == last.status = "ok"
Before == last.files
CheckpointsBefore == last.checkpoints

\* The decoded content of the newest stored version of a path.
latest_content(fs, path) ==
    LET vs == versions_of(fs, path) IN vs[Len(vs)].data.doc

\* C1: a delete(p) of a non-root path p that has stored versions, however many,
\* leaves exists(p) false and get(p) failing with 404.
C1_DeleteRemovesEveryVersion ==
    (Op = "delete" /\ last.path # "" /\ has_version(Before, last.path))
        => /\ ~exists(files, last.path)
           /\ \A env \in Envs : get(files, last.path, TRUE, None, env).status = "404"

\* C2: after the first successful save on a path with no version and no
\* checkpoint before it, list_checkpoints(p) has at least one record.
C2_FirstSaveLeavesCheckpoint ==
    (Op = "save" /\ Ok /\ ~has_version(Before, last.path)
       /\ list_checkpoints(CheckpointsBefore, last.path) = <<>>)
        => Len(list_checkpoints(checkpoints, last.path)) >= 1

\* A successful rename between two different paths, old existing and new not.
\* The root always exists, so it is left out as the old path.
Renamed ==
    /\ Op = "rename" /\ Ok
    /\ last.path # last.new_path
    /\ exists(Before, last.path)
    /\ ~exists(Before, last.new_path)

\* C3: after such a rename exists(old) is false, however many versions old had.
C3_RenameRemovesOld ==
    (Renamed /\ last.path # "") => ~exists(files, last.path)

\* C4: after such a rename exists(new) is true and the newest content stored at
\* new is the newest content that was stored at old (compared decoded: the
\* bytes may differ in key order).
C4_RenameCarriesContent ==
    Renamed => /\ exists(files, last.new_path)
               /\ has_version(files, last.new_path)
               /\ latest_content(files, last.new_path)
                    = latest_content(Before, last.path)

\* C4 witness: a rename of a path whose two versions differ in content.
C4_Witness ==
    /\ Renamed
    /\ Len(versions_of(Before, last.path)) = 2
    /\ versions_of(Before, last.path)[1].data # versions_of(Before, last.path)[2].data
    /\ has_version(files, last.new_path)

\* Every record listed for `from` in cps1 is listed for `to` in cps2.
ListedUnder(cps1, from, cps2, to) ==
    LET a == list_checkpoints(cps1, from)
        b == list_checkpoints(cps2, to)
    IN  \A i \in DOMAIN a : \E j \in DOMAIN b : b[j] = a[i]

\* C5 as stated: after any successful rename(old, new), the records listed for
\* old are listed for new with the same id and timestamp, and none is listed
\* for old.
C5_RenameMovesCheckpoints ==
    (Op = "rename" /\ Ok)
        => /\ ListedUnder(CheckpointsBefore, last.path, checkpoints, last.new_path)
           /\ list_checkpoints(checkpoints, last.path) = <<>>

\* C6: whenever exists(new) holds, rename(old, new) fails with 409 and leaves
\* the files and the checkpoints as they were (shown for an old path that has
\* a stored version and differs from new).
C6_RenameOntoExistingConflicts ==
    (Op = "rename" /\ last.path # last.new_path /\ exists(Before, last.new_path)
       /\ has_version(Before, last.path))
        => /\ last.status = "409"
           /\ files = Before
           /\ checkpoints = CheckpointsBefore

\* A successful save of a notebook model.
SavedNotebook == Op = "save" /\ Ok /\ last.model.type = "notebook"

\* C7 as stated: after a successful save of notebook content c at p,
\* get(p, content=True) returns a notebook model whose content is c.
C7_RoundTrip ==
    SavedNotebook
        => \A env \in Envs :
             LET r == get(files, last.path, TRUE, None, env)
             IN  /\ r.status = "ok"
                 /\ r.model.type = "notebook"
                 /\ r.model.content = last.model.content

\* C8: in every state exists("") is true and get("") returns a directory model.
C8_RootAlwaysListed ==
    /\ exists(files, "")
    /\ \A env \in Envs :
          /\ get(files, "", TRUE, None, env).status = "ok"
          /\ get(files, "", TRUE, None, env).model.type = "directory"

\* C9: in every state get("", content=True) returns a directory model with
\* exactly one entry per path that has a stored version, named by the path.
C9_RootListsEveryPathOnce ==
    \A env \in Envs :
        LET r == get(files, "", TRUE, None, env)
            entries == r.model.entries
        IN  /\ r.status = "ok"
            /\ { entries[i].name : i \in DOMAIN entries } = fs_names(files)
            /\ \A i, j \in DOMAIN entries : entries[i].name = entries[j].name => i = j

\* The records a call added to the checkpoint collection.
AddedCheckpoints == Len(checkpoints) - Len(CheckpointsBefore)
AddedFor(path) ==
    Len(list_checkpoints(checkpoints, path))
        - Len(list_checkpoints(CheckpointsBefore, path))

\* C10: a successful save at p adds exactly one checkpoint record, for p, when p
\* had a stored version and no checkpoint record, and adds none otherwise.
C10_SaveAddsOneCheckpointOnlyWhenNone ==
    (Op = "save" /\ Ok)
        => LET due == has_version(Before, last.path)
                        /\ list_checkpoints(CheckpointsBefore, last.path) = <<>>
           IN  /\ AddedCheckpoints = (IF due THEN 1 ELSE 0)
               /\ AddedFor(last.path) = AddedCheckpoints
               /\ SubSeq(checkpoints, 1, Len(CheckpointsBefore)) = CheckpointsBefore

\* C10 witness: the second save at a path, from a store that held nothing else.
C10_Witness ==
    /\ Op = "save" /\ Ok
    /\ Len(Before) = 1 /\ Before[1].filename = last.path
    /\ CheckpointsBefore = <<>>
    /\ Len(list_checkpoints(checkpoints, last.path)) = 1
    /\ Len(versions_of(files, last.path)) = 2

\* C11: delete(p) of a path with no stored version returns without an error
\* and leaves the files and the checkpoints as they were.
C11_DeleteOfMissingIsNoOp ==
    (Op = "delete" /\ ~has_version(Before, last.path))
        => /\ Ok
           /\ files = Before
           /\ checkpoints = CheckpointsBefore

\* C11 witness: a delete of a missing path in a store that holds other files.
C11_Witness ==
    /\ Op = "delete" /\ Ok
    /\ ~has_version(Before, last.path)
    /\ Before # <<>>
    /\ CheckpointsBefore # <<>>

\* The sequence ids (cp) of the records listed for a path.
SequenceIds(cps, path) ==
    LET l == list_checkpoints(cps, path) IN { l[i].id : i \in DOMAIN l }

\* C12: the records listed for a path never share a sequence id: with n
\* records the ids are exactly 0 .. n-1.
C12_SequenceIdsAreZeroToN ==
    \A path \in Paths :
        LET l == list_checkpoints(checkpoints, path)
        IN  /\ \A i, j \in DOMAIN l : l[i].id = l[j].id => i = j
            /\ SequenceIds(checkpoints, path) = 0 .. (Len(l) - 1)

\* C13: create_checkpoint(p) of a path with a stored version succeeds, returns
\* the number of records listed for p before the call, and leaves exactly one
\* more record listed, carrying that id.
C13_CreateCheckpointAppends ==
    (Op = "create_checkpoint" /\ has_version(Before, last.path))
        => LET before == list_checkpoints(CheckpointsBefore, last.path)
               after  == list_checkpoints(checkpoints, last.path)
           IN  /\ Ok
               /\ last.id = Len(before)
               /\ Len(after) = Len(before) + 1
               /\ SubSeq(after, 1, Len(before)) = before
               /\ after[Len(after)].id = last.id

\* C16: create_checkpoint(p) of a path with no stored version fails and leaves
\* the checkpoint collection as it was.
C16_CreateCheckpointNeedsVersion ==
    (Op = "create_checkpoint" /\ ~has_version(Before, last.path))
        => /\ ~Ok
           /\ checkpoints = CheckpointsBefore

\* C16 witness: the call fails for a path that lost its versions and still has
\* records listed.
C16_Witness ==
    /\ Op = "create_checkpoint" /\ last.status = "NoFile"
    /\ ~has_version(Before, last.path)
    /\ list_checkpoints(CheckpointsBefore, last.path) # <<>>

\* C17: delete never changes the checkpoint collection: every path lists the
\* same records before and after.
C17_DeleteKeepsCheckpoints ==
    Op = "delete"
        => /\ checkpoints = CheckpointsBefore
           /\ \A q \in Paths :
                 list_checkpoints(checkpoints, q) = list_checkpoints(CheckpointsBefore, q)

\* C17 witness: the last version of a path is deleted, its records stay listed.
C17_Witness ==
    /\ Op = "delete"
    /\ has_version(Before, last.path)
    /\ ~has_version(files, last.path)
    /\ list_checkpoints(checkpoints, last.path) # <<>>

\* C18: every path that holds two or more versions has a checkpoint record.
C18_TwoVersionsHaveCheckpoint ==
    \A path \in Paths :
        Len(versions_of(files, path)) >= 2
            => list_checkpoints(checkpoints, path) # <<>>

\* C19: a save that ends with an error 400 or 500 has written no version.
C19_FailedSaveWritesNothing ==
    (Op = "save" /\ last.status \in {"400", "500"}) => files = Before

\* C20: no two checkpoint records reference the same version.
C20_OneCheckpointPerVersion ==
    \A i, j \in DOMAIN checkpoints :
        checkpoints[i].id = checkpoints[j].id => i = j

\* C20 witness: a second checkpoint of the same version was refused, after a
\* rename moved the first one to another path.
C20_Witness ==
    /\ last.status = "DuplicateKeyError"
    /\ \E i \in DOMAIN checkpoints :
          /\ checkpoints[i].path # last.path
          /\ has_version(files, last.path)
          /\ checkpoints[i].id = versions_of(files, last.path)[
                                    Len(versions_of(files, last.path))]._id

\* Both calls are over, each read the record count before the other's update.
RacedEarly ==
    /\ Upserted(1) /\ Upserted(2)
    /\ callers[1].early /\ callers[2].early

\* The records of the raced path stored with one sequence id.
StoredWith(cp_id) ==
    { i \in DOMAIN checkpoints :
        checkpoints[i].path = RacePath /\ checkpoints[i].cp = cp_id }

\* C14: two calls that both read the record count before either inserts can
\* leave two stored records with the same sequence id: whenever both store
\* their record, two records of the path carry one sequence id.
C14_RaceStoresDuplicateIds ==
    (RacedEarly /\ callers[1].inserted /\ callers[2].inserted)
        => \E cp_id \in 0 .. MaxPuts : Cardinality(StoredWith(cp_id)) >= 2

\* C14 witness: both calls counted the same number of records before either
\* inserted, and both records are stored with that sequence id.
C14_Witness ==
    /\ RacedEarly
    /\ callers[1].inserted /\ callers[2].inserted
    /\ callers[1].cp_id = callers[2].cp_id
    /\ \E i, j \in StoredWith(callers[1].cp_id) :
          /\ checkpoints[i].id = callers[1].chid
          /\ checkpoints[j].id = callers[2].chid
          /\ i # j

\* The path holds a version whose newest content is the one old_path had when
\* the rename began.
HoldsOldContent(path) ==
    /\ has_version(files, path)
    /\ latest_content(files, path) = latest_content(Before, last.path)

\* The rename has written the copy and not yet deleted the source, or it was
\* stopped there.
BetweenPutAndDelete ==
    Op = "rename" /\ (renaming = "put" \/ last.status = "StoppedAfterPut")

\* The rename has deleted the source and not yet moved the checkpoints, or it
\* was stopped there.
BetweenDeleteAndRetarget ==
    Op = "rename" /\ (renaming = "deleted" \/ last.status = "StoppedAfterDelete")

\* C15 as stated, for a non-root old_path: between the copy and the source
\* delete both paths hold old's content and get(old_path) succeeds; after the
\* source delete new_path holds it.
C15_RenameKeepsSourceReadable ==
    /\ (BetweenPutAndDelete /\ last.path # "")
          => /\ HoldsOldContent(last.path)
             /\ HoldsOldContent(last.new_path)
             /\ \A env \in Envs : get(files, last.path, TRUE, None, env).status = "ok"
    /\ BetweenDeleteAndRetarget => HoldsOldContent(last.new_path)

\* C15 amended: between the copy and the source delete both paths hold old's
\* content and get(old_path) on a non-root path answers what it answered before
\* the rename began, the notebook when asked for as a notebook; get('') fails
\* as it did before; after the source delete new_path holds old's content.
C15_RenameKeepsSourceAnswer ==
    /\ BetweenPutAndDelete
          => /\ HoldsOldContent(last.path)
             /\ HoldsOldContent(last.new_path)
             /\ \A env \in Envs :
                  IF last.path = ""
                  THEN /\ get(Before, "", TRUE, None, env).status # "ok"
                       /\ get(files, "", TRUE, None, env).status # "ok"
                  ELSE /\ \A type \in {None, "notebook"} :
                            get(files, last.path, TRUE, type, env)
                              = get(Before, last.path, TRUE, type, env)
                       /\ LET g == get(files, last.path, TRUE, "notebook", env)
                          IN  /\ g.status = "ok"
                              /\ g.model.content = read_notebook(Before, last.path)
    /\ BetweenDeleteAndRetarget => HoldsOldContent(last.new_path)

\* C15 witness: a rename of a notebook path was stopped after the copy, the
\* source had versions before it.
C15_Witness ==
    /\ Op = "rename"
    /\ last.status = "StoppedAfterPut"
    /\ last.path = "a.ipynb"
    /\ HoldsOldContent("a.ipynb")
    /\ HoldsOldContent(last.new_path)
    /\ \A env \in Envs : get(files, "a.ipynb", TRUE, None, env).status = "ok"

====
